---- MODULE Spec2Model ----
(***************************************************************************)
(* Course Reverse Search: the POST /search relay of server.js, the        *)
(* course_qualifications table it reads, and the useRegex validators of   *)
(* the client scripts.                                                     *)
(*                                                                         *)
(* Strings are sequences of one-character strings, so that trim(),        *)
(* toUpperCase() and RegExp.test() are computed character by character.   *)
(***************************************************************************)
EXTENDS Integers, Sequences, FiniteSets, TLC

VARIABLES table, req, onLoan, probe, sub, display, boot

vars == <<table, req, onLoan, probe, sub, display, boot>>

----------------------------------------------------------------------------
(* Bounds *)

MaxReq == 2       \* POST /search requests per behaviour
MaxRows == 1      \* rows in course_qualifications while requests overlap
MaxTableRows == 3 \* rows in course_qualifications for a single request
PoolSize == 1     \* connections the pool can lend at a time
MaxLen == 4       \* length of the exhaustively enumerated validator inputs
MaxLetters == 5   \* longest department prefix among the shaped inputs
MaxDigits == 5    \* longest course number among the shaped inputs

----------------------------------------------------------------------------
(* Characters and the character classes the regular expressions use *)

UpperChars == {"A", "B"}
LowerChars == {"a", "b"}
DigitChars == {"1"}
SP == " "
TAB == "\t"
WhiteChars == {SP, TAB}
OtherChars == {"-"}
Alphabet == UpperChars \cup LowerChars \cup DigitChars \cup WhiteChars \cup OtherChars

\* [A-Za-z]
IsAlpha(c) == c \in UpperChars \cup LowerChars
\* \d
IsDigit(c) == c \in DigitChars
\* \s, which is also the set String.prototype.trim() strips
IsWhiteSpace(c) == c \in WhiteChars
\* [A-Za-z0-9] under the i flag
IsAlnum(c) == IsAlpha(c) \/ IsDigit(c)

----------------------------------------------------------------------------
(* String.prototype.trim() and String.prototype.toUpperCase() *)

RECURSIVE TrimStart(_)
TrimStart(s) ==
  IF s # <<>> /\ IsWhiteSpace(Head(s)) THEN TrimStart(Tail(s)) ELSE s

RECURSIVE TrimEnd(_)
TrimEnd(s) ==
  IF s # <<>> /\ IsWhiteSpace(s[Len(s)]) THEN TrimEnd(SubSeq(s, 1, Len(s) - 1)) ELSE s

Trim(s) == TrimEnd(TrimStart(s))

UpperOf(c) ==
  CASE c = "a" -> "A"
    [] c = "b" -> "B"
    [] OTHER -> c

ToUpperCase(s) == [i \in 1..Len(s) |-> UpperOf(s[i])]

----------------------------------------------------------------------------
(* The regular expressions *)

\* /^[A-Za-z]{2,4}\s\d{1,4}[A-Za-z]?$/ .test(s)
courseRegex(s) ==
  \E n \in 2..4, m \in 1..4, k \in 0..1 :
    /\ Len(s) = n + 1 + m + k
    /\ \A i \in 1..n : IsAlpha(s[i])
    /\ IsWhiteSpace(s[n + 1])
    /\ \A i \in (n + 2)..(n + 1 + m) : IsDigit(s[i])
    /\ (k = 1 => IsAlpha(s[Len(s)]))

\* /[A-Za-z0-9]+ [A-Za-z0-9]+/i .test(s): unanchored, literal space
prototypeRegex(s) ==
  \E i \in 1..(Len(s) - 2) :
    IsAlnum(s[i]) /\ s[i + 1] = SP /\ IsAlnum(s[i + 2])

\* /^[A-Za-z0-9]+ [0-9]+[A-Za-z]$/i .test(s)
draftRegex(s) ==
  \E n \in 1..Len(s), m \in 1..Len(s) :
    /\ Len(s) = n + 1 + m + 1
    /\ \A i \in 1..n : IsAlnum(s[i])
    /\ s[n + 1] = SP
    /\ \A i \in (n + 2)..(n + 1 + m) : IsDigit(s[i])
    /\ IsAlpha(s[Len(s)])

----------------------------------------------------------------------------
(* The client validators *)

\* script.js, current copies (deployed, localhost and annotated versions)
useRegex(input) == courseRegex(Trim(input))

\* early prototype copy: no trim, unanchored pattern
useRegexPrototype(input) == prototypeRegex(input)

\* first draft copy: no trim, a trailing letter is mandatory
useRegexDraft(input) == draftRegex(input)

----------------------------------------------------------------------------
(* JSON values of the courseCode field *)

JsString(s) == [kind |-> "string", str |-> s]
JsUndefined == [kind |-> "undefined", str |-> <<>>]
JsNull == [kind |-> "null", str |-> <<>>]
JsNumber(digits) == [kind |-> "number", str |-> digits]
JsTrue == [kind |-> "boolean", str |-> <<"t">>]
JsArray == [kind |-> "array", str |-> <<>>]
JsObject == [kind |-> "object", str |-> <<>>]

\* ToBoolean, as applied by the ! operator
ToBoolean(v) ==
  CASE v.kind = "string" -> v.str # <<>>
    [] v.kind = "number" -> v.str # <<"0">>
    [] v.kind = "boolean" -> v.str = <<"t">>
    [] v.kind \in {"array", "object"} -> TRUE
    [] OTHER -> FALSE

----------------------------------------------------------------------------
(* The server-side gate of POST /search *)

\* if (!courseCode || !courseRegex.test(courseCode.trim())): "invalid" when
\* the condition is true, "valid" when it is false, "throws" when evaluating
\* it raises a TypeError (a truthy value without a trim method)
ServerGateNoFalsyCheck(cc) ==
  IF cc.kind # "string" THEN "throws"
  ELSE IF ~courseRegex(Trim(cc.str)) THEN "invalid"
  ELSE "valid"

ServerGateSpaceOnly(cc) ==
  IF ~ToBoolean(cc) THEN "invalid"
  ELSE IF cc.kind # "string" THEN "throws"
  ELSE IF ~courseRegex(Trim(cc.str)) THEN "invalid"
  ELSE IF \E i \in 1..Len(cc.str) : cc.str[i] = TAB THEN "invalid"
  ELSE "valid"

ServerGate(cc) ==
  IF ~ToBoolean(cc) THEN "invalid"
  ELSE IF cc.kind # "string" THEN "throws"
  ELSE IF ~courseRegex(Trim(cc.str)) THEN "invalid"
  ELSE "valid"

\* [courseCode.trim().toUpperCase()]
LookupKeyNoUpper(cc) == Trim(cc.str)

LookupKey(cc) == ToUpperCase(Trim(cc.str))

\* the text handed to pool.query
QueryText ==
  "SELECT degree_name, certificate_name FROM course_qualifications WHERE course_code = $1 ORDER BY degree_name"

\* the same statement with the code spliced into the text
SplicedText(key) ==
  IF key = <<"A", "A", SP, "1">>
  THEN "SELECT degree_name, certificate_name FROM course_qualifications WHERE course_code = 'AA 1' ORDER BY degree_name"
  ELSE "SELECT degree_name, certificate_name FROM course_qualifications WHERE course_code = '<code>' ORDER BY degree_name"

\* the arguments of pool.query: statement text and values array
PoolQueryArgsSpliced(cc) == [text |-> SplicedText(LookupKey(cc)), values |-> <<LookupKey(cc)>>]

PoolQueryArgs(cc) == [text |-> QueryText, values |-> <<LookupKey(cc)>>]

----------------------------------------------------------------------------
(* course_qualifications(course_code, degree_name, certificate_name) *)

NULL == "<null>"

\* degree names in collation order
DegreeNames == <<"Art", "Bio", "Chem">>
DegreeRank(d) == CHOOSE i \in 1..Len(DegreeNames) : DegreeNames[i] = d

Row(c, d, x) == [course_code |-> c, degree_name |-> d, certificate_name |-> x]

RowUniverse ==
  { Row(<<"A", "A", SP, "1">>, "Bio", NULL),
    Row(<<"A", "A", SP, "1">>, "Art", "X"),
    Row(<<"A", "A", SP, "1">>, "Art", "Y"),
    Row(<<"A", "A", SP, "1">>, NULL, "X"),
    Row(<<"a", "a", SP, "1">>, "Chem", "Z"),
    Row(<<"A", "A", SP, "1", SP>>, "Bio", "W") }

Tables(n) == UNION { [1..k -> RowUniverse] : k \in 0..n }

\* SELECT degree_name, certificate_name
Project(r) == [degree_name |-> r.degree_name, certificate_name |-> r.certificate_name]

\* ORDER BY degree_name: ascending, NULLs after every non-null value
DegreeLeq(a, b) ==
  IF b = NULL THEN TRUE
  ELSE IF a = NULL THEN FALSE
  ELSE DegreeRank(a) <= DegreeRank(b)

\* rows of equal degree_name keep their stored order
RECURSIVE InsertRow(_, _)
InsertRow(r, sorted) ==
  IF sorted = <<>> THEN <<r>>
  ELSE IF DegreeLeq(Head(sorted).degree_name, r.degree_name)
       THEN <<Head(sorted)>> \o InsertRow(r, Tail(sorted))
       ELSE <<r>> \o sorted

RECURSIVE OrderByDegree(_)
OrderByDegree(rows) ==
  IF rows = <<>> THEN <<>>
  ELSE InsertRow(rows[Len(rows)], OrderByDegree(SubSeq(rows, 1, Len(rows) - 1)))

WhereCourseCodeNormalizing(t, key) ==
  SelectSeq(t, LAMBDA r : ToUpperCase(Trim(r.course_code)) = key)

\* WHERE course_code = $1
WhereCourseCode(t, key) == SelectSeq(t, LAMBDA r : r.course_code = key)

\* result.rows of the query for the bound parameter key
QueryRowsUnordered(t, key) ==
  LET m == WhereCourseCode(t, key) IN [i \in 1..Len(m) |-> Project(m[i])]

QueryRows(t, key) ==
  LET m == OrderByDegree(WhereCourseCode(t, key)) IN [i \in 1..Len(m) |-> Project(m[i])]

----------------------------------------------------------------------------
(* Requests and responses *)

ReqIds == 1..MaxReq

\* causes a failed database call can carry in err.message
\* err.message when no connection can be obtained, and when the statement fails
ConnectErrTexts == {"Connection terminated unexpectedly"}
QueryErrTexts == {"relation \"course_qualifications\" does not exist"}
ErrTexts == ConnectErrTexts \cup QueryErrTexts

MsgInvalid == "Invalid course code format."
MsgNotFound == "No degrees or certificates found for that course."
MsgDbFailed == "Database query failed."

NoResponse == [status |-> 0, kind |-> "none", error |-> "", results |-> <<>>]
\* res.status(code).json({ error: msg })
ErrorJson(code, msg) == [status |-> code, kind |-> "error", error |-> msg, results |-> <<>>]
\* res.json({ results: rows })
ResultsJson(rows) == [status |-> 200, kind |-> "results", error |-> "", results |-> rows]
\* the framework's own error page, not produced by the route handler
ErrorPage(code) == [status |-> code, kind |-> "page", error |-> "", results |-> <<>>]

\* strings sent as courseCode in the relay model
ReqStrings ==
  { <<>>,
    <<"A", "A", SP, "1">>,
    <<SP, "A", "a", SP, "1", SP>>,
    <<"A", "A", TAB, "1">>,
    <<"A", "A", "1">> }

CourseCodeValues ==
  { JsUndefined, JsNull, JsNumber(<<"0">>), JsNumber(<<"1">>), JsTrue,
    JsArray, JsObject } \cup { JsString(s) : s \in ReqStrings }

\* courseCode values of overlapping requests: one value of each kind the gate
\* tells apart
OverlapCourseCodes == CourseCodeValues \ {JsTrue, JsArray}

IdleReq ==
  [pc |-> "idle", syntax |-> "none", courseCode |-> JsUndefined, resp |-> NoResponse,
   sent |-> 0, queries |-> <<>>, lent |-> 0, logged |-> <<>>, dbError |-> ""]

NoProbe == [input |-> <<>>, ran |-> {}, accepted |-> {}]

\* the startup connection check and app.listen: where the check stands, whether
\* the HTTP server listens, connections the check borrowed and released, and
\* what it logged
BootRecord(pc, listening, borrowed, released, logged) ==
  [pc |-> pc, listening |-> listening, borrowed |-> borrowed, released |-> released,
   logged |-> logged]

\* before server.js runs
BootStart == BootRecord("start", FALSE, 0, 0, <<>>)

\* the server listens and its startup check has succeeded
BootDone == BootRecord("ok", TRUE, 1, 1, <<"Connected to TimescaleDB successfully.">>)

----------------------------------------------------------------------------
(* The page of script.js: form submissions and the output section *)

\* one call of handleSubmit: the text of #user_input it read, how many times it
\* called fetch, and the HTTP response it received
IdleSub == [pc |-> "idle", input |-> <<>>, fetches |-> 0, got |-> NoResponse]

\* textContent of #status_message
StatusText(kind, text, arg, n) == [kind |-> kind, text |-> text, arg |-> arg, n |-> n]
NoStatus == StatusText("none", "", <<>>, 0)

\* innerHTML of #result_list: '' or <ul> with one <li> per entry
NoList == [ul |-> FALSE, items |-> <<>>]

\* #status_message, #search_label and #result_list, each with the submission
\* that wrote it last (0: none)
BlankPage ==
  [shown |-> FALSE,
   status |-> NoStatus, statusBy |-> 0,
   label |-> <<>>, labelBy |-> 0,
   list |-> NoList, listBy |-> 0]

Init ==
  /\ table \in Tables(MaxRows)
  /\ req = [r \in ReqIds |-> IdleReq]
  /\ onLoan = 0
  /\ probe = NoProbe
  /\ sub = [s \in ReqIds |-> IdleSub]
  /\ display = BlankPage
  /\ boot = BootDone

\* requests are numbered in order of arrival; the request of form submission q
\* has number q
NextReq(r) ==
  /\ req[r].pc = "idle"
  /\ \A q \in ReqIds : q < r => (req[q].pc # "idle" \/ sub[q].pc # "idle")

\* express.json() cannot parse the body: the route handler is never entered and
\* the framework answers the parse error with its 400 page
ReceiveMalformed(r) ==
  /\ NextReq(r)
  /\ req' = [req EXCEPT ![r] = [@ EXCEPT !.pc = "done", !.syntax = "malformed",
                                         !.resp = ErrorPage(400), !.sent = 1]]
  /\ UNCHANGED <<table, onLoan, probe, sub, display, boot>>

\* the route handler up to its await: destructure, validate, call pool.query
SearchUnguarded(r, cc, fate) ==
  /\ NextReq(r)
  /\ fate = "handled"
  /\ cc.kind = "string"
  /\ LET arrived == [req[r] EXCEPT !.syntax = "json", !.courseCode = cc,
                       !.queries = Append(@, PoolQueryArgs(cc))]
     IN IF ServerGate(cc) = "invalid"
        THEN req' = [req EXCEPT ![r] = [arrived EXCEPT !.pc = "done",
                                          !.resp = ErrorJson(400, MsgInvalid), !.sent = 1]]
        ELSE req' = [req EXCEPT ![r] = [arrived EXCEPT !.pc = "waiting"]]
  /\ UNCHANGED <<table, onLoan, probe, sub, display, boot>>

Search(r, cc, fate) ==
  /\ NextReq(r)
  /\ LET gate == ServerGate(cc)
         arrived == [req[r] EXCEPT !.syntax = "json", !.courseCode = cc]
     IN CASE gate = "invalid" ->
               /\ fate = "handled"
               /\ req' = [req EXCEPT ![r] = [arrived EXCEPT !.pc = "done",
                                               !.resp = ErrorJson(400, MsgInvalid), !.sent = 1]]
          [] gate = "throws" ->
               \* the async handler rejects outside its try block: either nothing
               \* handles the rejection and no response is sent, or the framework
               \* forwards it to its error page
               \/ /\ fate = "unhandled"
                  /\ req' = [req EXCEPT ![r] = [arrived EXCEPT !.pc = "faulted"]]
               \/ /\ fate = "forwarded"
                  /\ req' = [req EXCEPT ![r] = [arrived EXCEPT !.pc = "done",
                                                  !.resp = ErrorPage(500), !.sent = 1]]
          [] OTHER ->
               /\ fate = "handled"
               /\ req' = [req EXCEPT ![r] = [arrived EXCEPT !.pc = "waiting",
                             !.queries = Append(@, PoolQueryArgs(cc))]]
  /\ UNCHANGED <<table, onLoan, probe, sub, display, boot>>

\* pool.query obtains a connection and sends the statement
PoolLend(r) ==
  /\ req[r].pc = "waiting"
  /\ onLoan < PoolSize
  /\ onLoan' = onLoan + 1
  /\ req' = [req EXCEPT ![r] = [@ EXCEPT !.pc = "running", !.lent = @ + 1]]
  /\ UNCHANGED <<table, probe, sub, display, boot>>

\* catch (err): log the cause, answer 500 with the fixed message
CatchBlockLeaky(q, e) ==
  [q EXCEPT !.pc = "done", !.dbError = e, !.logged = Append(@, e),
            !.resp = ErrorJson(500, e), !.sent = @ + 1]

CatchBlock(q, e) ==
  [q EXCEPT !.pc = "done", !.dbError = e, !.logged = Append(@, e),
            !.resp = ErrorJson(500, MsgDbFailed), !.sent = @ + 1]

\* pool.query cannot obtain a connection: the promise rejects, nothing was lent
PoolConnectFail(r, e) ==
  /\ req[r].pc = "waiting"
  /\ req' = [req EXCEPT ![r] = CatchBlock(@, e)]
  /\ UNCHANGED <<table, onLoan, probe, sub, display, boot>>

\* the statement fails: the connection is returned and the promise rejects
QueryRejectNoRelease(r, e) ==
  /\ req[r].pc = "running"
  /\ req' = [req EXCEPT ![r] = CatchBlock(@, e)]
  /\ UNCHANGED <<table, onLoan, probe, sub, display, boot>>

QueryReject(r, e) ==
  /\ req[r].pc = "running"
  /\ onLoan' = onLoan - 1
  /\ req' = [req EXCEPT ![r] = CatchBlock(@, e)]
  /\ UNCHANGED <<table, probe, sub, display, boot>>

\* the rest of the try block once result is available
AfterQueryNoEmptyCheck(q, rows) ==
  [q EXCEPT !.pc = "done", !.resp = ResultsJson(rows), !.sent = @ + 1]

AfterQueryLogsNotFound(q, rows) ==
  IF Len(rows) = 0
  THEN [q EXCEPT !.pc = "done", !.resp = ErrorJson(404, MsgNotFound), !.sent = @ + 1,
                 !.logged = Append(@, MsgNotFound)]
  ELSE [q EXCEPT !.pc = "done", !.resp = ResultsJson(rows), !.sent = @ + 1]

AfterQuery(q, rows) ==
  IF Len(rows) = 0
  THEN [q EXCEPT !.pc = "done", !.resp = ErrorJson(404, MsgNotFound), !.sent = @ + 1]
  ELSE [q EXCEPT !.pc = "done", !.resp = ResultsJson(rows), !.sent = @ + 1]

\* the statement succeeds: the connection is returned and the promise resolves
QueryResolveSharedCode(r) ==
  /\ req[r].pc = "running"
  /\ onLoan' = onLoan - 1
  /\ LET last == CHOOSE q \in ReqIds :
                    req[q].queries # <<>> /\ \A p \in ReqIds : req[p].queries # <<>> => p <= q
     IN req' = [req EXCEPT ![r] = AfterQuery(@, QueryRows(table, req[last].queries[1].values[1]))]
  /\ UNCHANGED <<table, probe, sub, display, boot>>

QueryResolveDeleting(r) ==
  /\ req[r].pc = "running"
  /\ onLoan' = onLoan - 1
  /\ LET key == req[r].queries[Len(req[r].queries)].values[1]
     IN /\ req' = [req EXCEPT ![r] = AfterQuery(@, QueryRows(table, key))]
        /\ table' = SelectSeq(table, LAMBDA x : x.course_code # key)
  /\ UNCHANGED <<probe, sub, display, boot>>

QueryResolve(r) ==
  /\ req[r].pc = "running"
  /\ onLoan' = onLoan - 1
  /\ req' = [req EXCEPT ![r] = AfterQuery(@, QueryRows(table, req[r].queries[Len(req[r].queries)].values[1]))]
  /\ UNCHANGED <<table, probe, sub, display, boot>>

Fates == {"handled", "unhandled", "forwarded"}

Next ==
  \/ \E r \in ReqIds : ReceiveMalformed(r)
  \/ \E r \in ReqIds, cc \in OverlapCourseCodes, fate \in Fates : Search(r, cc, fate)
  \/ \E r \in ReqIds : PoolLend(r)
  \/ \E r \in ReqIds, e \in ConnectErrTexts : PoolConnectFail(r, e)
  \/ \E r \in ReqIds, e \in QueryErrTexts : QueryReject(r, e)
  \/ \E r \in ReqIds : QueryResolve(r)

Spec == Init /\ [][Next]_vars

----------------------------------------------------------------------------
(* A single request against a larger table *)

InitOneRequest ==
  /\ table \in Tables(MaxTableRows)
  /\ req = [r \in ReqIds |-> IdleReq]
  /\ onLoan = 0
  /\ probe = NoProbe
  /\ sub = [s \in ReqIds |-> IdleSub]
  /\ display = BlankPage
  /\ boot = BootDone

NextOneRequest ==
  \/ ReceiveMalformed(1)
  \/ \E cc \in CourseCodeValues, fate \in Fates : Search(1, cc, fate)
  \/ PoolLend(1)
  \/ \E e \in ConnectErrTexts : PoolConnectFail(1, e)
  \/ \E e \in QueryErrTexts : QueryReject(1, e)
  \/ QueryResolve(1)

SpecOneRequest == InitOneRequest /\ [][NextOneRequest]_vars

----------------------------------------------------------------------------
(* handleSubmit of script.js, composed with the relay *)

MsgInvalidFormat ==
  "Invalid format. Please enter a department code followed by a course number"
MsgNetwork == "Network error. Could not reach the server. Please try again."

\* the texts handleSubmit writes to #status_message
StatusInvalidFormat == StatusText("invalid", MsgInvalidFormat, <<>>, 0)
\* `Searching for "${userInput.trim()}"...`
StatusSearching(input) == StatusText("searching", "Searching for", Trim(input), 0)
\* `Error: ${data.error}`
StatusError(reason) == StatusText("error", reason, <<>>, 0)
\* `${n} match${n === 1 ? '' : 'es'} found.`
StatusCount(n) == StatusText("count", IF n = 1 THEN "match found." ELSE "matches found.", <<>>, n)
StatusNetwork == StatusText("network", MsgNetwork, <<>>, 0)

\* row.degree_name ?? 'N/A', row.certificate_name ?? 'N/A'
RenderRowBlank(row) ==
  [degree |-> IF row.degree_name = NULL THEN "" ELSE row.degree_name,
   certificate |-> IF row.certificate_name = NULL THEN "" ELSE row.certificate_name]

RenderRow(row) ==
  [degree |-> IF row.degree_name = NULL THEN "N/A" ELSE row.degree_name,
   certificate |-> IF row.certificate_name = NULL THEN "N/A" ELSE row.certificate_name]

\* `<ul>${listItems}</ul>`
RenderList(results) ==
  [ul |-> TRUE, items |-> [i \in 1..Len(results) |-> RenderRow(results[i])]]

\* `Results for: ${userInput.trim().toUpperCase()}`
SearchLabel(input) == ToUpperCase(Trim(input))

\* texts typed into #user_input
ClientInputs ==
  { <<"A", "A", SP, "1">>,
    <<SP, "A", "a", SP, "1", SP>>,
    <<"A", "A", "1">> }

\* table contents while the page is in use
ClientTables ==
  { <<>>,
    <<Row(<<"A", "A", SP, "1">>, NULL, "X")>>,
    <<Row(<<"A", "A", SP, "1">>, "Bio", NULL), Row(<<"A", "A", SP, "1">>, "Art", "X")>> }

\* submissions are numbered in the order the form is submitted
NextSub(s) == sub[s].pc = "idle" /\ \A q \in ReqIds : q < s => sub[q].pc # "idle"

\* handleSubmit up to its first await: show and reset the output section,
\* validate, show the loading state, call fetch
SubmitNoGate(s, input) ==
  /\ NextSub(s)
  /\ display' = [display EXCEPT !.shown = TRUE, !.list = NoList, !.listBy = 0,
                                !.label = <<>>, !.labelBy = 0,
                                !.status = IF useRegex(input) THEN StatusSearching(input)
                                           ELSE StatusInvalidFormat,
                                !.statusBy = s]
  /\ sub' = [sub EXCEPT ![s] = [@ EXCEPT !.pc = IF useRegex(input) THEN "sent" ELSE "rejected",
                                         !.input = input, !.fetches = 1]]
  /\ UNCHANGED <<table, req, onLoan, probe, boot>>

Submit(s, input) ==
  /\ NextSub(s)
  /\ LET cleared == [display EXCEPT !.shown = TRUE, !.list = NoList, !.listBy = 0,
                                    !.label = <<>>, !.labelBy = 0]
     IN IF ~useRegex(input)
        THEN /\ display' = [cleared EXCEPT !.status = StatusInvalidFormat, !.statusBy = s]
             /\ sub' = [sub EXCEPT ![s] = [@ EXCEPT !.pc = "rejected", !.input = input]]
        ELSE /\ display' = [cleared EXCEPT !.status = StatusSearching(input), !.statusBy = s]
             /\ sub' = [sub EXCEPT ![s] = [@ EXCEPT !.pc = "sent", !.input = input,
                                                    !.fetches = @ + 1]]
  /\ UNCHANGED <<table, req, onLoan, probe, boot>>

\* the POST of submission s, body JSON.stringify({ courseCode: userInput.trim() }),
\* reaches the relay
ServerReceive(s) ==
  /\ sub[s].pc = "sent"
  /\ Search(s, JsString(Trim(sub[s].input)), "handled")

\* the catch block of handleSubmit
CatchFetch(s) == [display EXCEPT !.status = StatusNetwork, !.statusBy = s]

AfterFetchSilentError(s, resp) ==
  IF resp.kind \notin {"error", "results"}
  THEN CatchFetch(s)
  ELSE IF resp.status < 200 \/ resp.status > 299
       THEN display
       ELSE [display EXCEPT !.label = SearchLabel(sub[s].input), !.labelBy = s,
                            !.status = StatusCount(Len(resp.results)), !.statusBy = s,
                            !.list = RenderList(resp.results), !.listBy = s]

\* handleSubmit after fetch resolved with an HTTP response: response.json(),
\* the response.ok test, then the rendering of data.results
AfterFetch(s, resp) ==
  IF resp.kind \notin {"error", "results"}
  THEN CatchFetch(s)
  ELSE IF resp.status < 200 \/ resp.status > 299
       THEN [display EXCEPT !.status = StatusError(resp.error), !.statusBy = s]
       ELSE [display EXCEPT !.label = SearchLabel(sub[s].input), !.labelBy = s,
                            !.status = StatusCount(Len(resp.results)), !.statusBy = s,
                            !.list = RenderList(resp.results), !.listBy = s]

\* the relay's response arrives
HttpResponse(s) ==
  /\ sub[s].pc = "sent"
  /\ req[s].pc = "done"
  /\ display' = AfterFetch(s, req[s].resp)
  /\ sub' = [sub EXCEPT ![s] = [@ EXCEPT !.pc = "answered", !.got = req[s].resp]]
  /\ UNCHANGED <<table, req, onLoan, probe, boot>>

\* the host answers the POST itself with an error page that is not JSON
\* (for instance a 404 page when it does not serve /search)
ForeignResponse(s) ==
  /\ sub[s].pc = "sent"
  /\ req[s].pc = "idle"
  /\ display' = AfterFetch(s, ErrorPage(404))
  /\ sub' = [sub EXCEPT ![s] = [@ EXCEPT !.pc = "answered", !.got = ErrorPage(404)]]
  /\ UNCHANGED <<table, req, onLoan, probe, boot>>

\* fetch rejects: no HTTP response is received
NetworkErrorRetry(s) ==
  /\ sub[s].pc = "sent"
  /\ sub[s].fetches < 2
  /\ display' = CatchFetch(s)
  /\ sub' = [sub EXCEPT ![s] = [@ EXCEPT !.fetches = @ + 1]]
  /\ UNCHANGED <<table, req, onLoan, probe, boot>>

NetworkError(s) ==
  /\ sub[s].pc = "sent"
  /\ display' = CatchFetch(s)
  /\ sub' = [sub EXCEPT ![s] = [@ EXCEPT !.pc = "unreachable"]]
  /\ UNCHANGED <<table, req, onLoan, probe, boot>>

InitClient ==
  /\ table \in ClientTables
  /\ req = [r \in ReqIds |-> IdleReq]
  /\ onLoan = 0
  /\ probe = NoProbe
  /\ sub = [s \in ReqIds |-> IdleSub]
  /\ display = BlankPage
  /\ boot = BootDone

NextClient ==
  \/ \E s \in ReqIds, input \in ClientInputs : Submit(s, input)
  \/ \E s \in ReqIds : ServerReceive(s)
  \/ \E r \in ReqIds : PoolLend(r)
  \/ \E r \in ReqIds, e \in ConnectErrTexts : PoolConnectFail(r, e)
  \/ \E r \in ReqIds, e \in QueryErrTexts : QueryReject(r, e)
  \/ \E r \in ReqIds : QueryResolve(r)
  \/ \E s \in ReqIds : HttpResponse(s)
  \/ \E s \in ReqIds : ForeignResponse(s)
  \/ \E s \in ReqIds : NetworkError(s)

SpecClient == InitClient /\ [][NextClient]_vars

----------------------------------------------------------------------------
(* server.js from its start: the startup connection check and app.listen *)

\* the module body of server.js runs to its end: pool.connect is called with
\* the check's callback, the route is registered and app.listen binds the port
ServerMain ==
  /\ boot.pc = "start"
  /\ boot' = [boot EXCEPT !.pc = "checking", !.listening = TRUE]
  /\ UNCHANGED <<table, req, onLoan, probe, sub, display>>

\* the pool obtains a connection for the startup check
StartupLend ==
  /\ boot.pc = "checking"
  /\ onLoan < PoolSize
  /\ onLoan' = onLoan + 1
  /\ boot' = [boot EXCEPT !.pc = "connected", !.borrowed = @ + 1]
  /\ UNCHANGED <<table, req, probe, sub, display>>

\* the callback runs with err = null: log, then release()
StartupConnected ==
  /\ boot.pc = "connected"
  /\ onLoan' = onLoan - 1
  /\ boot' = [boot EXCEPT !.pc = "ok", !.released = @ + 1,
                          !.logged = Append(@, "Connected to TimescaleDB successfully.")]
  /\ UNCHANGED <<table, req, probe, sub, display>>

\* the callback runs with an error: log the reason and return
StartupFailedExits(e) ==
  /\ boot.pc = "checking"
  /\ boot' = [boot EXCEPT !.pc = "failed", !.listening = FALSE, !.logged = Append(@, e)]
  /\ UNCHANGED <<table, req, onLoan, probe, sub, display>>

StartupFailed(e) ==
  /\ boot.pc = "checking"
  /\ boot' = [boot EXCEPT !.pc = "failed", !.logged = Append(@, e)]
  /\ UNCHANGED <<table, req, onLoan, probe, sub, display>>

\* courseCode values sent while the server starts
StartupCourseCodes ==
  { JsUndefined, JsString(<<"A", "A", SP, "1">>), JsString(<<"A", "A", "1">>) }

\* a request is received only while the HTTP server listens
Listening(r) == boot.listening /\ req[r].pc = "idle"

InitStartup ==
  /\ table \in ClientTables
  /\ req = [r \in ReqIds |-> IdleReq]
  /\ onLoan = 0
  /\ probe = NoProbe
  /\ sub = [s \in ReqIds |-> IdleSub]
  /\ display = BlankPage
  /\ boot = BootStart

NextStartup ==
  \/ ServerMain
  \/ StartupLend
  \/ StartupConnected
  \/ \E e \in ConnectErrTexts : StartupFailed(e)
  \/ \E r \in ReqIds, cc \in StartupCourseCodes : Listening(r) /\ Search(r, cc, "handled")
  \/ \E r \in ReqIds : PoolLend(r)
  \/ \E r \in ReqIds, e \in ConnectErrTexts : PoolConnectFail(r, e)
  \/ \E r \in ReqIds, e \in QueryErrTexts : QueryReject(r, e)
  \/ \E r \in ReqIds : QueryResolve(r)

SpecStartup == InitStartup /\ [][NextStartup]_vars

----------------------------------------------------------------------------
(* The validators applied to one input string *)

Rep(c, n) == [i \in 1..n |-> c]

\* every string over the alphabet up to MaxLen characters
AllStrings == UNION { [1..n -> Alphabet] : n \in 0..MaxLen }

\* strings of the shape <prefix><separator><number><suffix> with optional
\* surrounding whitespace
ShapedStrings ==
  { lead \o Rep(c, n) \o sep \o Rep("1", m) \o suffix \o trail :
      lead \in {<<>>, <<SP>>, <<TAB>>},
      c \in {"A", "b"},
      n \in 1..MaxLetters,
      sep \in {<<>>, <<SP>>, <<TAB>>, <<"-">>, <<SP, SP>>},
      m \in 0..MaxDigits,
      suffix \in {<<>>, <<"A">>, <<"a", "B">>, <<SP, "A">>},
      trail \in {<<>>, <<SP>>, <<TAB, SP>>} }

ProbeInputs == AllStrings \cup ShapedStrings

Validators == {"useRegex", "useRegexPrototype", "useRegexDraft", "server"}

Verdict(name, ok) ==
  /\ name \notin probe.ran
  /\ probe' = [probe EXCEPT !.ran = @ \cup {name},
                            !.accepted = IF ok THEN @ \cup {name} ELSE @]
  /\ UNCHANGED <<table, req, onLoan, sub, display, boot>>

RunUseRegex == Verdict("useRegex", useRegex(probe.input))

RunUseRegexPrototype == Verdict("useRegexPrototype", useRegexPrototype(probe.input))

RunUseRegexDraft == Verdict("useRegexDraft", useRegexDraft(probe.input))

\* the server gate applied to { "courseCode": input }
RunServerGate == Verdict("server", ServerGate(JsString(probe.input)) = "valid")

InitValidator ==
  /\ table = <<>>
  /\ req = [r \in ReqIds |-> IdleReq]
  /\ onLoan = 0
  /\ probe \in { [input |-> s, ran |-> {}, accepted |-> {}] : s \in ProbeInputs }
  /\ sub = [s \in ReqIds |-> IdleSub]
  /\ display = BlankPage
  /\ boot = BootDone

NextValidator ==
  \/ RunUseRegex
  \/ RunUseRegexPrototype
  \/ RunUseRegexDraft
  \/ RunServerGate

SpecValidator == InitValidator /\ [][NextValidator]_vars

----------------------------------------------------------------------------
(* One form submission with any text, sent to the relay *)

InitGate ==
  /\ table \in ClientTables
  /\ req = [r \in ReqIds |-> IdleReq]
  /\ onLoan = 0
  /\ probe = NoProbe
  /\ sub = [s \in ReqIds |-> IdleSub]
  /\ display = BlankPage
  /\ boot = BootDone

NextGate ==
  \/ NextSub(1) /\ \E input \in ProbeInputs : Submit(1, input)
  \/ ServerReceive(1)
  \/ PoolLend(1)
  \/ \E e \in ConnectErrTexts : PoolConnectFail(1, e)
  \/ \E e \in QueryErrTexts : QueryReject(1, e)
  \/ QueryResolve(1)
  \/ HttpResponse(1)

SpecGate == InitGate /\ [][NextGate]_vars

----------------------------------------------------------------------------
(* Vocabulary of the properties *)

\* the shape <2-4 letters><one space><1-4 digits><optional letter>, anchored
StatedPattern(s) ==
  \E n \in 2..4, m \in 1..4, k \in 0..1 :
    /\ Len(s) = n + 1 + m + k
    /\ \A i \in 1..n : IsAlpha(s[i])
    /\ s[n + 1] = SP
    /\ \A i \in (n + 2)..(n + 1 + m) : IsDigit(s[i])
    /\ (k = 1 => IsAlpha(s[Len(s)]))

\* the handler was entered with a parsed JSON body
Parsed(r) == req[r].syntax = "json"

\* the request passed the gate and its database read returned rows
ReadSucceeded(r) ==
  /\ Parsed(r)
  /\ req[r].pc = "done"
  /\ ServerGate(req[r].courseCode) = "valid"
  /\ req[r].dbError = ""

\* the request passed the gate and its database read failed
ReadFailed(r) == Parsed(r) /\ req[r].pc = "done" /\ req[r].dbError # ""

\* the code after trim followed by uppercase
NormalizedCode(r) == ToUpperCase(Trim(req[r].courseCode.str))

\* stored records whose course_code equals the code
MatchingRecords(code) == { i \in DOMAIN table : table[i].course_code = code }

Occurrences(seq, x) == Cardinality({ i \in DOMAIN seq : seq[i] = x })

----------------------------------------------------------------------------
(* Properties *)

\* C1: for every input string s, the client useRegex and the server gate accept
\* s exactly when trim(s) has the shape <2-4 letters><one space character>
\* <1-4 digits><optional letter>; a tab or other whitespace separator is rejected.
C1_ValidatorAcceptsExactlyStatedPattern ==
  \A v \in {"useRegex", "server"} :
    v \in probe.ran => ((v \in probe.accepted) <=> StatedPattern(Trim(probe.input)))

\* C2: every request whose body lacks courseCode, or whose courseCode does not
\* pass the validator, is answered 400 with exactly {error: "Invalid course
\* code format."}.
C2_InvalidInputIs400 ==
  \A r \in ReqIds :
    (Parsed(r) /\ ServerGate(req[r].courseCode) # "valid")
      => req[r].resp = ErrorJson(400, MsgInvalid)

\* C3: a valid course code with zero matching records is answered 404 with the
\* fixed message, and no response is ever a 200 with an empty results array.
C3_NoMatchIs404Never200Empty ==
  \A r \in ReqIds :
    /\ (ReadSucceeded(r) /\ MatchingRecords(NormalizedCode(r)) = {})
         => req[r].resp = ErrorJson(404, MsgNotFound)
    /\ ~(req[r].resp.status = 200 /\ req[r].resp.results = <<>>)

C3_Witness ==
  \E r \in ReqIds :
    /\ ReadSucceeded(r)
    /\ table # <<>>
    /\ MatchingRecords(NormalizedCode(r)) = {}
    /\ req[r].resp.status = 404

\* C4: a valid course code with N >= 1 records of exactly the normalized code is
\* answered 200 with N entries, one per matching record and none from other
\* codes, with the non-null degree names in ascending order.
C4_MatchIs200WithAllRowsOrdered ==
  \A r \in ReqIds :
    (ReadSucceeded(r) /\ MatchingRecords(NormalizedCode(r)) # {}) =>
      LET m == MatchingRecords(NormalizedCode(r))
          res == req[r].resp.results
      IN /\ req[r].resp.status = 200
         /\ req[r].resp.kind = "results"
         /\ Len(res) = Cardinality(m)
         /\ \A x \in RowUniverse :
              Occurrences(res, Project(x)) =
                Cardinality({ i \in m : Project(table[i]) = Project(x) })
         /\ \A i, j \in DOMAIN res :
              (i < j /\ res[i].degree_name # NULL /\ res[j].degree_name # NULL)
                => DegreeRank(res[i].degree_name) <= DegreeRank(res[j].degree_name)

C4_Witness ==
  \E r \in ReqIds :
    /\ ReadSucceeded(r)
    /\ req[r].resp.status = 200
    /\ Len(table) = 3
    /\ table[1].degree_name = "Bio"
    /\ table[2].course_code # NormalizedCode(r)
    /\ table[3].degree_name = "Art"
    /\ Len(req[r].resp.results) = 2
    /\ req[r].resp.results[1].degree_name = "Art"

\* C5: whenever the database read of a validated request fails, the response is
\* exactly 500 {error: "Database query failed."}, the same for every cause.
C5_DbFailureIsGeneric500 ==
  /\ \A r \in ReqIds :
       ReadFailed(r) => (req[r].resp = ErrorJson(500, MsgDbFailed) /\ req[r].sent = 1)
  /\ \A r1, r2 \in ReqIds :
       (ReadFailed(r1) /\ ReadFailed(r2)) => req[r1].resp = req[r2].resp

C5_Witness ==
  \E r1, r2 \in ReqIds :
    /\ ReadFailed(r1)
    /\ ReadFailed(r2)
    /\ req[r1].dbError # req[r2].dbError
    /\ req[r1].resp.status = 500

C8_EveryRequestEndsInOneOutcome ==
  \A r \in ReqIds :
    (Parsed(r) /\ req[r].pc \notin {"waiting", "running"}) =>
      /\ req[r].pc = "done"
      /\ req[r].sent = 1
      /\ \/ req[r].resp = ErrorJson(400, MsgInvalid)
         \/ req[r].resp = ErrorJson(404, MsgNotFound)
         \/ req[r].resp = ErrorJson(500, MsgDbFailed)
         \/ (req[r].resp.status = 200 /\ req[r].resp.kind = "results")

\* C9: every client copy of useRegex accepts a string exactly when the server
\* gate does not reject it with 400.
C9_ClientCopiesAgreeWithServer ==
  "server" \in probe.ran =>
    \A c \in {"useRegex", "useRegexPrototype", "useRegexDraft"} :
      c \in probe.ran => ((c \in probe.accepted) <=> ("server" \in probe.accepted))

\* C10: a database read is issued only for a request whose courseCode passed
\* the server gate, and no request answered 400 has issued one.
C10_QueryOnlyAfterValidation ==
  \A r \in ReqIds :
    /\ req[r].queries # <<>> => (Parsed(r) /\ ServerGate(req[r].courseCode) = "valid")
    /\ req[r].resp.status = 400 => req[r].queries = <<>>

C10_Witness ==
  \E r1, r2 \in ReqIds :
    /\ Parsed(r1)
    /\ req[r1].resp.status = 400
    /\ req[r1].courseCode.kind = "string"
    /\ req[r1].courseCode.str # <<>>
    /\ req[r2].queries # <<>>
    /\ req[r2].pc = "running"

\* C11: each query borrows exactly one pool connection and returns it on the
\* success and the error path: connections on loan never exceed the queries
\* in flight or the pool, and none is on loan once no query is in flight.
C11_PoolLoansReturned ==
  /\ \A r \in ReqIds : req[r].lent <= 1 /\ req[r].lent <= Len(req[r].queries)
  /\ onLoan <= Cardinality({ r \in ReqIds : req[r].pc \in {"waiting", "running"} })
  /\ onLoan <= PoolSize
  /\ (\A r \in ReqIds : req[r].pc \notin {"waiting", "running"}) => onLoan = 0

C11_Witness ==
  \E r1, r2 \in ReqIds :
    /\ ReadFailed(r1)
    /\ req[r1].lent = 1
    /\ ReadSucceeded(r2)
    /\ req[r2].lent = 1
    /\ onLoan = 0

\* the response the handler gives a parsed request on its own
ResponseAlone(r) ==
  LET gate == ServerGate(req[r].courseCode)
      rows == QueryRows(table, NormalizedCode(r))
  IN CASE gate = "invalid" -> ErrorJson(400, MsgInvalid)
       [] gate = "throws" -> ErrorPage(500)
       [] req[r].dbError # "" -> ErrorJson(500, MsgDbFailed)
       [] rows = <<>> -> ErrorJson(404, MsgNotFound)
       [] OTHER -> ResultsJson(rows)

\* a submission that has ended: rejected by the validator, answered, or failed
Ended(s) == sub[s].pc \in {"rejected", "answered", "unreachable"}

\* C12: a request issues at most one database read and a submission at most one
\* HTTP request, and once a request is answered or a submission has ended
\* (400, 404, 500 or network error included) nothing further is sent for it.
C12_NoRetries ==
  /\ [](\A r \in ReqIds : /\ Len(req[r].queries) <= 1
                          /\ req[r].lent <= 1
                          /\ sub[r].fetches <= 1)
  /\ [][\A r \in ReqIds : /\ req[r].pc = "done" => req'[r] = req[r]
                          /\ Ended(r) => sub'[r] = sub[r]]_vars

C12_Witness ==
  \E s1, s2 \in ReqIds :
    /\ sub[s1].pc = "unreachable"
    /\ sub[s2].pc = "answered"
    /\ sub[s2].got = ErrorJson(500, MsgDbFailed)
    /\ Len(req[s2].queries) = 1

\* C13: the status shows the network-error message only when no HTTP response
\* was received, and every received HTTP error response (400/404/500) shows
\* "Error: <reason>" with the error text of the response.
C13_NetworkAndHttpErrorsDistinct ==
  \A s \in ReqIds :
    display.statusBy = s =>
      /\ display.status = StatusNetwork => sub[s].got = NoResponse
      /\ (sub[s].pc = "answered" /\ sub[s].got.status \in {400, 404, 500})
           => (display.status.kind = "error" /\ display.status.text = sub[s].got.error)

C15_QueryIsParameterized ==
  \A r \in ReqIds : \A i \in DOMAIN req[r].queries :
    /\ req[r].queries[i].text = QueryText
    /\ req[r].queries[i].values = <<NormalizedCode(r)>>

C15_Witness ==
  \E r1, r2 \in ReqIds :
    /\ req[r1].queries # <<>>
    /\ req[r2].queries # <<>>
    /\ req[r1].queries[1].values # req[r2].queries[1].values

\* C16: no request, whatever its outcome, creates, changes or deletes a row of
\* course_qualifications.
C16_TableReadOnly == [][table' = table]_vars

C16_Witness ==
  \E r1, r2 \in ReqIds :
    /\ table # <<>>
    /\ ReadSucceeded(r1)
    /\ req[r1].resp.status = 200
    /\ ReadFailed(r2)

\* C17: whenever the status message belongs to a submission, the result list
\* and the search label are empty or belong to that same submission.
C17_NoStaleResults ==
  /\ display.listBy \in {0, display.statusBy}
  /\ display.labelBy \in {0, display.statusBy}

\* C18: no HTTP request is sent for input that fails useRegex, and the step that
\* handles an invalid submission sets the invalid-format status, leaves the
\* result list and the search label empty, and sends nothing.
C18_InvalidInputNeverFetched ==
  /\ [](\A s \in ReqIds :
          (sub[s].fetches > 0 \/ req[s].pc # "idle") => courseRegex(Trim(sub[s].input)))
  /\ [][\A s \in ReqIds :
          (sub[s].pc = "idle" /\ sub'[s].pc # "idle" /\ ~courseRegex(Trim(sub'[s].input))) =>
            /\ display'.status.kind = "invalid"
            /\ display'.status.text = MsgInvalidFormat
            /\ display'.list.items = <<>>
            /\ ~display'.list.ul
            /\ display'.label = <<>>
            /\ sub'[s].fetches = 0
            /\ sub'[s].pc = "rejected"
            /\ req' = req]_vars

C18_Witness ==
  \E s1, s2 \in ReqIds :
    /\ s1 < s2
    /\ sub[s1].pc = "answered"
    /\ sub[s1].got.status = 200
    /\ sub[s2].pc = "rejected"
    /\ display.statusBy = s2
    /\ display.list = NoList

C20_ResultsRendered ==
  [][\A s \in ReqIds :
       (sub[s].pc = "sent" /\ sub'[s].pc = "answered" /\ sub'[s].got.status = 200) =>
         LET results == sub'[s].got.results
             N == Len(results)
             shown(v) == IF v = NULL THEN "N/A" ELSE v
         IN /\ display'.list.ul
            /\ Len(display'.list.items) = N
            /\ \A i \in 1..N :
                 /\ display'.list.items[i].degree = shown(results[i].degree_name)
                 /\ display'.list.items[i].certificate = shown(results[i].certificate_name)
            /\ display'.status.kind = "count"
            /\ display'.status.n = N
            /\ display'.status.text =
                 (IF N = 1 THEN "match found." ELSE "matches found.")
            /\ display'.label = ToUpperCase(Trim(sub[s].input))]_vars

C20_Witness ==
  \E s1, s2 \in ReqIds :
    /\ sub[s1].pc = "answered"
    /\ sub[s1].got.status = 200
    /\ sub[s1].input = <<SP, "A", "a", SP, "1", SP>>
    /\ sub[s2].pc = "sent"
    /\ display.listBy = s1
    /\ Len(display.list.items) = 2
    /\ display.list.items[2].certificate = "N/A"
    /\ display.status = StatusCount(2)
    /\ display.label = <<"A", "A", SP, "1">>

\* C21: the startup check releases its connection exactly once when it
\* connects and borrows nothing when it fails, and after a failed check the
\* server still listens, answers invalid requests 400 and failed reads 500.
C21_StartupCheckReleasesAndServerStays ==
  /\ boot.released <= boot.borrowed
  /\ boot.borrowed <= 1
  /\ boot.pc = "ok" => (boot.borrowed = 1 /\ boot.released = 1)
  /\ onLoan = (boot.borrowed - boot.released)
                + Cardinality({r \in ReqIds : req[r].pc = "running"})
  /\ boot.pc = "failed" =>
       /\ boot.borrowed = 0
       /\ boot.listening
       /\ \A r \in ReqIds :
            /\ (Parsed(r) /\ ServerGate(req[r].courseCode) = "invalid")
                 => req[r].resp = ErrorJson(400, MsgInvalid)
            /\ ReadFailed(r) => req[r].resp = ErrorJson(500, MsgDbFailed)

C21_Witness ==
  \E r1, r2 \in ReqIds :
    /\ boot.pc = "failed"
    /\ req[r1].resp = ErrorJson(400, MsgInvalid)
    /\ req[r2].resp = ErrorJson(500, MsgDbFailed)

\* the stored course-code shape: 2-4 uppercase letters, one space character,
\* 1-4 digits, an optional uppercase letter
StoredShape(s) ==
  /\ StatedPattern(s)
  /\ \A i \in 1..Len(s) : s[i] \notin LowerChars

\* C22: every value bound as $1 has the stored course-code shape, with exactly
\* one space character as separator and no other whitespace anywhere.
C22_LookupKeyHasStoredShape ==
  \A r \in ReqIds : \A i \in DOMAIN req[r].queries :
    /\ Len(req[r].queries[i].values) = 1
    /\ StoredShape(req[r].queries[i].values[1])

\* the submission made last
LastSubmitted(s) ==
  /\ sub[s].pc # "idle"
  /\ \A q \in ReqIds : q > s => sub[q].pc = "idle"

\* C23: once the responses of two valid submissions have both arrived, the
\* status, the search label and the result list are those of the submission
\* made last, whatever the order of arrival.
C23_LastSubmissionWins ==
  \A s1, s2 \in ReqIds :
    (s1 < s2 /\ LastSubmitted(s2) /\ sub[s1].pc = "answered" /\ sub[s2].pc = "answered") =>
      /\ display.statusBy = s2
      /\ display.labelBy \in {0, s2}
      /\ display.listBy \in {0, s2}

\* C24: a valid submission shows the searching status; the step in which its
\* fetch settles replaces that status by exactly one of the match count with
\* the rendered results, "Error: <reason>", or the network-error message; the
\* searching status is never shown for a submission whose fetch has settled.
C24_SearchingAlwaysReplaced ==
  /\ [](display.status.kind = "searching" =>
          /\ display.statusBy \in ReqIds
          /\ sub[display.statusBy].pc = "sent"
          /\ display.status.arg = Trim(sub[display.statusBy].input))
  /\ [][\A s \in ReqIds :
          /\ (sub[s].pc = "idle" /\ sub'[s].pc = "sent") =>
               /\ display'.statusBy = s
               /\ display'.status.kind = "searching"
               /\ display'.status.arg = Trim(sub'[s].input)
          /\ (sub[s].pc = "sent" /\ sub'[s].pc \in {"answered", "unreachable"}) =>
               /\ display'.statusBy = s
               /\ \/ /\ display'.status.kind = "count"
                     /\ sub'[s].got.status = 200
                     /\ display'.status.n = Len(sub'[s].got.results)
                     /\ display'.listBy = s
                     /\ display'.list.ul
                  \/ /\ display'.status.kind = "error"
                     /\ sub'[s].got.kind = "error"
                     /\ display'.status.text = sub'[s].got.error
                  \/ /\ display'.status.kind = "network"
                     /\ display'.status.text = MsgNetwork]_vars

C24_Witness ==
  \E s1, s2 \in ReqIds :
    /\ sub[s1].pc = "answered"
    /\ sub[s1].got = ErrorJson(404, MsgNotFound)
    /\ display.statusBy = s1
    /\ display.status.kind = "error"
    /\ sub[s2].pc = "unreachable"

\* C25: a request sent by handleSubmit carries the trimmed input, passes the
\* server gate and is never answered 400: it ends only in 200, 404 or 500.
C25_ClientRequestsNever400 ==
  \A s \in ReqIds :
    (sub[s].fetches > 0 /\ req[s].pc # "idle") =>
      /\ req[s].courseCode = JsString(Trim(sub[s].input))
      /\ req[s].pc \in {"waiting", "running", "done"}
      /\ req[s].pc = "done" =>
           /\ req[s].resp.kind \in {"error", "results"}
           /\ req[s].resp.status \in {200, 404, 500}
      /\ sub[s].pc = "answered" => sub[s].got.status \in {200, 404, 500}

C25_Witness ==
  \E s \in ReqIds :
    /\ sub[s].pc = "answered"
    /\ sub[s].got.status = 404
    /\ sub[s].input # Trim(sub[s].input)
    /\ \E i \in 1..Len(sub[s].input) : sub[s].input[i] \in LowerChars

\* C26: composed with the relay, the page never shows a match count of zero:
\* every 200 response received carries at least one result and the list
\* rendered from it is not empty.
C26_NeverZeroMatches ==
  /\ display.status.kind = "count" =>
       (display.status.n >= 1 /\ display.status # StatusCount(0))
  /\ \A s \in ReqIds :
       /\ (sub[s].pc = "answered" /\ sub[s].got.status = 200) => Len(sub[s].got.results) >= 1
       /\ (display.listBy = s /\ display.list.ul) => Len(display.list.items) >= 1

C26_Witness ==
  \E s \in ReqIds :
    /\ sub[s].pc = "answered"
    /\ sub[s].got.status = 200
    /\ display.statusBy = s
    /\ display.status = StatusCount(1)
    /\ Len(display.list.items) = 1

\* a stored record whose course_code equals its own trim-then-uppercase form
NormalizedStored(row) == row.course_code = ToUpperCase(Trim(row.course_code))

\* C27: a stored record whose course_code contains a lowercase letter, or
\* otherwise differs from its own trim-then-uppercase form, is never returned
\* by any request: every returned entry comes from a stored record whose code
\* is in normal form and equals the lookup key.
C27_UnnormalizedRecordsNeverReturned ==
  \A r \in ReqIds :
    req[r].resp.kind = "results" =>
      \A i \in DOMAIN req[r].resp.results :
        /\ \E j \in DOMAIN table :
             /\ NormalizedStored(table[j])
             /\ table[j].course_code = ToUpperCase(Trim(req[r].courseCode.str))
             /\ Project(table[j]) = req[r].resp.results[i]
        /\ \A x \in RowUniverse :
             ~NormalizedStored(x) => req[r].resp.results[i] # Project(x)

C27_Witness ==
  \E r \in ReqIds :
    /\ req[r].resp.status = 200
    /\ req[r].courseCode.str = <<SP, "A", "a", SP, "1", SP>>
    /\ Len(table) = 3
    /\ table[1].course_code = <<"a", "a", SP, "1">>
    /\ table[2].course_code = <<"A", "A", SP, "1", SP>>
    /\ NormalizedStored(table[3])
    /\ Len(req[r].resp.results) = 1

====
